---- MODULE Spec2Model ----
(***************************************************************************)
(* Model of the sample programs under assets/:                             *)
(*   - rustbacktrace/main.rs : the call-chain tracer (func_a .. func_f)    *)
(*   - rustloop/src/main.rs  : the sleep loop printing pid and a counter   *)
(* The tracer is modelled as a small stack machine that executes the       *)
(* statement lists of the source functions; the loop by its three          *)
(* statements.                                                             *)
(***************************************************************************)
EXTENDS Integers, Sequences, FiniteSets

VARIABLES
    entry,      \* the function the run starts in ("main" for the program)
    stack,      \* call stack of the tracer, top frame last
    out,        \* lines written to standard output by the tracer
    status,     \* "running" | "exited" | "overflow"
    nextId,     \* id the next invocation gets
    events,     \* history: every call, print and return, in order
    steps,      \* history: number of statements executed
    twin,       \* a second run of the same program (for side-by-side runs)
    lpc,        \* rustloop: position in main
    pid,        \* rustloop: local `pid`
    ndx,        \* rustloop: local `ndx`
    lout,       \* rustloop: lines written to standard output
    clock       \* rustloop: milliseconds slept so far

tracerVars == <<entry, stack, out, status, nextId, events, steps>>
loopVars   == <<lpc, pid, ndx, lout, clock>>
vars       == <<entry, stack, out, status, nextId, events, steps, twin,
                lpc, pid, ndx, lout, clock>>

----------------------------------------------------------------------------
(* Bounds *)

MaxDepth == 8       \* frames the stack can hold before it overflows
MaxIter  == 12      \* iterations of the sleep loop that are explored
MaxPid   == 3       \* process ids range over 1..MaxPid

(* Program constants *)

second == 1000              \* time::Duration::from_millis(1000)
I32Max == 2147483647        \* `ndx` is an i32

----------------------------------------------------------------------------
(* rustbacktrace/main.rs : the statements of each function *)

Funcs   == {"func_a", "func_b", "func_c", "func_d", "func_e", "func_f"}
Entries == Funcs \cup {"main"}

Invoke(g)  == [op |-> "call",    arg |-> g]
Println(s) == [op |-> "println", arg |-> s]

\* variant: func_e calls on after printing
func_e_calls == << Println("func_e"), Invoke("func_f") >>

func_e == << Println("func_e") >>

\* variant: func_d prints before it calls
func_d_pre == << Println("func_d"), Invoke("func_e") >>

func_d == << Invoke("func_e"), Println("func_d") >>

\* variant: func_c calls back up the chain
func_c_cycle == << Invoke("func_b"), Println("func_c") >>

func_c == << Invoke("func_d"), Println("func_c") >>

\* variant: func_b prints its line twice
func_b_twice == << Invoke("func_c"), Println("func_b"), Println("func_b") >>

func_b == << Invoke("func_c"), Println("func_b") >>

func_a == << Invoke("func_b"), Println("func_a") >>

\* variant: func_f without the reversed order
func_f_post == << Invoke("func_e"), Println("func_f") >>

func_f == << Println("func_f"), Invoke("func_e") >>

\* variant: main without the direct call of func_e
main_no_e == << Invoke("func_a"), Invoke("func_b"), Invoke("func_c"),
                Invoke("func_d"), Invoke("func_f") >>

\* variant: main calling only four of the functions
main_four == << Invoke("func_a"), Invoke("func_b"), Invoke("func_c"),
                Invoke("func_f") >>

\* variant: main with the first two calls exchanged
main_swapped == << Invoke("func_b"), Invoke("func_a"), Invoke("func_c"),
                   Invoke("func_d"), Invoke("func_e"), Invoke("func_f") >>

main == << Invoke("func_a"), Invoke("func_b"), Invoke("func_c"),
           Invoke("func_d"), Invoke("func_e"), Invoke("func_f") >>

Body(f) ==
    CASE f = "func_a" -> func_a
      [] f = "func_b" -> func_b
      [] f = "func_c" -> func_c
      [] f = "func_d" -> func_d
      [] f = "func_e" -> func_e
      [] f = "func_f" -> func_f
      [] f = "main"   -> main

----------------------------------------------------------------------------
(* The stack machine.  A machine state is a record; each kind of step is   *)
(* given as the set of machine states it can lead to.                      *)

Frame(f, id) == [fn |-> f, pc |-> 1, id |-> id]

Event(k, id, f, a, c) == [kind |-> k, id |-> id, fn |-> f, arg |-> a, cid |-> c]

Boot(f) == [stack  |-> << Frame(f, 1) >>,
            out    |-> << >>,
            status |-> "running",
            nextId |-> 2,
            events |-> << >>,
            steps  |-> 0]

Top(m) == m.stack[Len(m.stack)]

Live(m) == m.status = "running" /\ m.stack # << >>

AtEnd(m) == Top(m).pc > Len(Body(Top(m).fn))

Stmt(m) == Body(Top(m).fn)[Top(m).pc]

Advance(m) == [m.stack EXCEPT ![Len(m.stack)].pc = @ + 1]

\* a call statement: the caller resumes after the call, the callee starts
CallStep(m) ==
    IF ~Live(m) \/ AtEnd(m) THEN {}
    ELSE IF Stmt(m).op # "call" THEN {}
    ELSE IF Len(m.stack) >= MaxDepth
         THEN { [m EXCEPT !.status = "overflow"] }
         ELSE { [m EXCEPT
                   !.stack  = Append(Advance(m), Frame(Stmt(m).arg, m.nextId)),
                   !.nextId = @ + 1,
                   !.events = Append(@, Event("call", Top(m).id, Top(m).fn,
                                              Stmt(m).arg, m.nextId)),
                   !.steps  = @ + 1] }

\* variant: a println! whose line may be lost
EmitStep_lossy(m) ==
    IF ~Live(m) \/ AtEnd(m) THEN {}
    ELSE IF Stmt(m).op # "println" THEN {}
    ELSE { [m EXCEPT
              !.stack  = Advance(m),
              !.out    = o,
              !.events = Append(@, Event("print", Top(m).id, Top(m).fn,
                                         Stmt(m).arg, 0)),
              !.steps  = @ + 1] : o \in {m.out, Append(m.out, Stmt(m).arg)} }

\* println!: one line is appended to standard output
EmitStep(m) ==
    IF ~Live(m) \/ AtEnd(m) THEN {}
    ELSE IF Stmt(m).op # "println" THEN {}
    ELSE { [m EXCEPT
              !.stack  = Advance(m),
              !.out    = Append(@, Stmt(m).arg),
              !.events = Append(@, Event("print", Top(m).id, Top(m).fn,
                                         Stmt(m).arg, 0)),
              !.steps  = @ + 1] }

\* the closing brace of a function: its frame is popped; when the entry
\* function returns the run is over
ReturnStep(m) ==
    IF ~Live(m) THEN {}
    ELSE IF ~AtEnd(m) THEN {}
    ELSE { [m EXCEPT
              !.stack  = SubSeq(@, 1, Len(@) - 1),
              !.status = IF Len(m.stack) = 1 THEN "exited" ELSE @,
              !.events = Append(@, Event("ret", Top(m).id, Top(m).fn, "", 0)),
              !.steps  = @ + 1] }

Successors(m) == CallStep(m) \cup EmitStep(m) \cup ReturnStep(m)

----------------------------------------------------------------------------
(* The tracer run held in the variables *)

M == [stack |-> stack, out |-> out, status |-> status,
      nextId |-> nextId, events |-> events, steps |-> steps]

Load(n) ==
    /\ stack'  = n.stack
    /\ out'    = n.out
    /\ status' = n.status
    /\ nextId' = n.nextId
    /\ events' = n.events
    /\ steps'  = n.steps
    /\ UNCHANGED entry

Call ==
    /\ \E n \in CallStep(M) : Load(n)
    /\ UNCHANGED <<twin, loopVars>>

Emit ==
    /\ \E n \in EmitStep(M) : Load(n)
    /\ UNCHANGED <<twin, loopVars>>

Return ==
    /\ \E n \in ReturnStep(M) : Load(n)
    /\ UNCHANGED <<twin, loopVars>>

\* the second run takes one step
TwinStep ==
    /\ \E n \in Successors(twin) : twin' = n
    /\ UNCHANGED <<tracerVars, loopVars>>

----------------------------------------------------------------------------
(* rustloop/src/main.rs *)

Pids == 1 .. MaxPid

Line(p, n) == << "rust looping (pid: ", p, "): ", n >>

\* `ndx += 1` on an i32: on overflow a build with overflow checks panics,
\* a build without them wraps
AddAssign(n) ==
    IF n < I32Max
    THEN { [pc |-> "sleep", val |-> n + 1] }
    ELSE { [pc |-> "panicked", val |-> n],
           [pc |-> "sleep",    val |-> -I32Max - 1] }

\* lines 5-8: second, pid and ndx are set before the loop
LoopEnter ==
    /\ lpc = "boot"
    /\ \E p \in Pids : pid' = p
    /\ ndx' = 0
    /\ lpc' = "print"
    /\ UNCHANGED <<lout, clock, tracerVars, twin>>

\* line 10
LoopPrint ==
    /\ lpc = "print"
    /\ Len(lout) < MaxIter
    /\ lout' = Append(lout, Line(pid, ndx))
    /\ lpc' = "incr"
    /\ UNCHANGED <<pid, ndx, clock, tracerVars, twin>>

\* variant: the counter advances by two
LoopIncr_by2 ==
    /\ lpc = "incr"
    /\ ndx' = ndx + 2
    /\ lpc' = "sleep"
    /\ UNCHANGED <<pid, lout, clock, tracerVars, twin>>

\* line 12
LoopIncr ==
    /\ lpc = "incr"
    /\ \E r \in AddAssign(ndx) : ndx' = r.val /\ lpc' = r.pc
    /\ UNCHANGED <<pid, lout, clock, tracerVars, twin>>

\* line 13, then back to the top of the loop
LoopSleep ==
    /\ lpc = "sleep"
    /\ clock' = clock + second
    /\ lpc' = "print"
    /\ UNCHANGED <<pid, ndx, lout, tracerVars, twin>>

----------------------------------------------------------------------------
(* Specifications *)

Init ==
    /\ entry \in Entries
    /\ stack  = Boot(entry).stack
    /\ out    = Boot(entry).out
    /\ status = Boot(entry).status
    /\ nextId = Boot(entry).nextId
    /\ events = Boot(entry).events
    /\ steps  = Boot(entry).steps
    /\ twin   = Boot(entry)
    /\ lpc = "boot"
    /\ pid = 0
    /\ ndx = 0
    /\ lout = << >>
    /\ clock = 0

Next == Call \/ Emit \/ Return

Spec == Init /\ [][Next]_vars

\* the tracer has no suspension points: a step that can be taken is taken
FairSpec == Spec /\ WF_vars(Next)

\* two runs of the tracer, stepped side by side
NextPair == Call \/ Emit \/ Return \/ TwinStep

SpecPair == Init /\ [][NextPair]_vars

\* the sleep loop
InitLoop == Init /\ entry = "main"

NextLoop == LoopEnter \/ LoopPrint \/ LoopIncr \/ LoopSleep

SpecLoop == InitLoop /\ [][NextLoop]_vars

----------------------------------------------------------------------------
(* Reading the history *)

Ids == 1 .. (nextId - 1)

\* the function an invocation runs
FnOf(id) ==
    IF id = 1 THEN entry
    ELSE events[CHOOSE i \in DOMAIN events :
                    events[i].kind = "call" /\ events[i].cid = id].arg

PrintsOf(id) == {i \in DOMAIN events : events[i].kind = "print" /\ events[i].id = id}
CallsOf(id)  == {i \in DOMAIN events : events[i].kind = "call"  /\ events[i].id = id}
RetsOf(id)   == {i \in DOMAIN events : events[i].kind = "ret"   /\ events[i].id = id}

\* the position in the history at which an invocation began (0: the entry)
BeganAt(id) ==
    IF id = 1 THEN 0
    ELSE CHOOSE i \in DOMAIN events : events[i].kind = "call" /\ events[i].cid = id

\* the lines printed while invocation id was on the stack, in order
RECURSIVE LinesBetween(_, _)
LinesBetween(lo, hi) ==
    IF lo > hi THEN << >>
    ELSE IF events[lo].kind = "print"
         THEN << events[lo].arg >> \o LinesBetween(lo + 1, hi)
         ELSE LinesBetween(lo + 1, hi)

OutputOf(id) ==
    LET r == CHOOSE i \in RetsOf(id) : TRUE
    IN  LinesBetween(BeganAt(id) + 1, r)

Finished == status = "exited" /\ stack = << >>

\* the functions main has called so far, in the order of the calls
RECURSIVE CalleesBetween(_, _, _)
CalleesBetween(id, lo, hi) ==
    IF lo > hi THEN << >>
    ELSE IF events[lo].kind = "call" /\ events[lo].id = id
         THEN << events[lo].arg >> \o CalleesBetween(id, lo + 1, hi)
         ELSE CalleesBetween(id, lo + 1, hi)

DirectCallees(id) == CalleesBetween(id, 1, Len(events))

Range(s) == {s[i] : i \in DOMAIN s}

\* functions that were called by some function other than main
CalledByOthers ==
    {events[i].arg : i \in {j \in DOMAIN events :
                               events[j].kind = "call" /\ events[j].fn # "main"}}

----------------------------------------------------------------------------
(* C1 *)

Transcript11 ==
    << "func_e", "func_d", "func_c", "func_b", "func_a",
       "func_b", "func_c", "func_d", "func_e",
       "func_f", "func_e" >>

Transcript17 ==
    << "func_e", "func_d", "func_c", "func_b", "func_a",
       "func_e", "func_d", "func_c", "func_b",
       "func_e", "func_d", "func_c",
       "func_e", "func_d",
       "func_e",
       "func_f", "func_e" >>

\* C1 as stated: a complete run of main prints exactly the 11-line
\* transcript e,d,c,b,a,b,c,d,e,f,e.
C1_AsStated ==
    (entry = "main" /\ Finished) => out = Transcript11

\* C1 amended: a complete run of main prints exactly the 17-line transcript
\* e,d,c,b,a, e,d,c,b, e,d,c, e,d, e, f,e in that order, and while it is
\* running what it has printed is a prefix of that transcript.
C1_Transcript ==
    entry = "main" =>
        /\ Len(out) <= Len(Transcript17)
        /\ out = SubSeq(Transcript17, 1, Len(out))
        /\ Finished => out = Transcript17

C1_Witness == entry = "main" /\ Finished /\ Len(out) = 17

----------------------------------------------------------------------------
(* C2 *)

\* C2 as stated: main invokes exactly four of the six operations directly
\* and the other two are never called from main, only from other operations.
C2_AsStated ==
    (entry = "main" /\ Finished) =>
        /\ Len(DirectCallees(1)) = 4
        /\ Cardinality(Range(DirectCallees(1))) = 4
        /\ Funcs \ Range(DirectCallees(1)) \subseteq CalledByOthers

\* C2 amended: main invokes all six operations directly, each exactly once,
\* in sequence; none is reached only transitively (func_b..func_e are
\* reached transitively as well, func_a and func_f from main only).
C2_MainCallsAllSix ==
    (entry = "main" /\ Finished) =>
        /\ Len(DirectCallees(1)) = 6
        /\ Range(DirectCallees(1)) = Funcs
        /\ CalledByOthers = {"func_b", "func_c", "func_d", "func_e"}
        /\ Funcs \ Range(DirectCallees(1)) = {}

C2_Witness ==
    entry = "main" /\ Finished /\ Cardinality(CallsOf(1)) = 6

----------------------------------------------------------------------------
(* C3 *)

PreOrderPairs  == { <<"func_f", "func_e">> }
PostOrderPairs == { <<"func_a", "func_b">>, <<"func_b", "func_c">>,
                    <<"func_c", "func_d">>, <<"func_d", "func_e">> }

CallEvents == {i \in DOMAIN events : events[i].kind = "call"}

\* C3: in every invocation of func_f its own line is printed strictly before
\* the line of the func_e it calls; for the pairs a/b, b/c, c/d, d/e the
\* callee's line is printed strictly before the caller's line.
C3_PrintOrder ==
    \A i \in CallEvents :
        LET caller == events[i].id
            callee == events[i].cid
            pair   == << events[i].fn, events[i].arg >>
        IN  /\ pair \in PreOrderPairs =>
                /\ \A j \in PrintsOf(callee) : \E p \in PrintsOf(caller) : p < j
                /\ RetsOf(callee) # {} =>
                       PrintsOf(caller) # {} /\ PrintsOf(callee) # {}
            /\ pair \in PostOrderPairs =>
                /\ \A p \in PrintsOf(caller) : \E j \in PrintsOf(callee) : j < p
                /\ RetsOf(caller) # {} =>
                       PrintsOf(caller) # {} /\ PrintsOf(callee) # {}

C3_Witness ==
    /\ entry = "main"
    /\ \E i \in CallEvents :
           /\ << events[i].fn, events[i].arg >> \in PreOrderPairs
           /\ RetsOf(events[i].id) # {}
    /\ \E i \in CallEvents :
           /\ << events[i].fn, events[i].arg >> = << "func_a", "func_b" >>
           /\ RetsOf(events[i].id) # {}

----------------------------------------------------------------------------
(* C4 *)

CallGraph == [func_a |-> "func_b", func_b |-> "func_c", func_c |-> "func_d",
              func_d |-> "func_e", func_e |-> "none",   func_f |-> "func_e"]

CallsDue(f) == IF CallGraph[f] = "none" THEN 0 ELSE 1

\* C4: every invocation of func_a..func_f prints its own name exactly once
\* before it returns, and the only call it makes is the one of the call
\* graph, made exactly once.
C4_OncePerInvocation ==
    \A id \in Ids :
        LET f == FnOf(id)
        IN  f \in Funcs =>
              /\ Cardinality(PrintsOf(id)) <= 1
              /\ \A i \in PrintsOf(id) : events[i].arg = f
              /\ Cardinality(CallsOf(id)) <= CallsDue(f)
              /\ \A i \in CallsOf(id) : events[i].arg = CallGraph[f]
              /\ \A r \in RetsOf(id) :
                    /\ Cardinality(PrintsOf(id)) = 1
                    /\ \A i \in PrintsOf(id) : i < r
                    /\ Cardinality(CallsOf(id)) = CallsDue(f)
                    /\ \A i \in CallsOf(id) : i < r

C4_Witness ==
    /\ entry = "main"
    /\ Finished
    /\ \A f \in Funcs : \E id \in Ids : FnOf(id) = f /\ RetsOf(id) # {}

----------------------------------------------------------------------------
(* C5 *)

\* C5: invoking only func_d prints exactly the two lines func_e, func_d.
C5_FuncDAlone ==
    entry = "func_d" =>
        /\ Len(out) <= 2
        /\ out = SubSeq(<< "func_e", "func_d" >>, 1, Len(out))
        /\ Finished => out = << "func_e", "func_d" >>

C5_Witness == entry = "func_d" /\ Finished /\ Len(events) = 5

----------------------------------------------------------------------------
(* C6 *)

\* C6: func_e is terminal: an invocation of func_e calls nothing, prints the
\* one line func_e, and no frame is ever above a func_e frame.
C6_FuncETerminal ==
    /\ \A i \in DOMAIN stack : stack[i].fn = "func_e" => i = Len(stack)
    /\ \A id \in Ids :
          FnOf(id) = "func_e" =>
              /\ CallsOf(id) = {}
              /\ RetsOf(id) # {} => OutputOf(id) = << "func_e" >>
    /\ (entry = "func_e" /\ Finished) => out = << "func_e" >>

C6_Witness ==
    /\ entry = "main"
    /\ Len(stack) = 6
    /\ stack[6].fn = "func_e"
    /\ PrintsOf(stack[6].id) # {}

----------------------------------------------------------------------------
(* C7 *)

IsPrefix(s, t) == Len(s) <= Len(t) /\ s = SubSeq(t, 1, Len(s))

----------------------------------------------------------------------------
(* C8 *)

OnStack(f) == \E i \in DOMAIN stack : stack[i].fn = f

----------------------------------------------------------------------------
(* C10 *)

Isolated == [func_a |-> << "func_e", "func_d", "func_c", "func_b", "func_a" >>,
             func_b |-> << "func_e", "func_d", "func_c", "func_b" >>,
             func_c |-> << "func_e", "func_d", "func_c" >>,
             func_d |-> << "func_e", "func_d" >>,
             func_e |-> << "func_e" >>,
             func_f |-> << "func_f", "func_e" >>]

LiteralOrder == << "func_a", "func_b", "func_c", "func_d", "func_e", "func_f" >>

MainCalls == {i \in CallEvents : events[i].id = 1 /\ events[i].fn = "main"}

\* C10: main invokes func_a..func_f directly in that literal order, each
\* returning before the next is invoked, so a full run prints the outputs of
\* the six isolated invocations one after the other: 17 lines, 6 of them
\* func_e.
C10_Concatenation ==
    /\ (entry \in Funcs /\ Finished) => out = Isolated[entry]
    /\ entry = "main" =>
          /\ IsPrefix(DirectCallees(1), LiteralOrder)
          /\ \A i, j \in MainCalls :
                i < j => \E r \in RetsOf(events[i].cid) : r < j
          /\ \A i \in MainCalls :
                RetsOf(events[i].cid) # {} =>
                    OutputOf(events[i].cid) = Isolated[events[i].arg]
          /\ Finished =>
                /\ DirectCallees(1) = LiteralOrder
                /\ out = Isolated["func_a"] \o Isolated["func_b"]
                         \o Isolated["func_c"] \o Isolated["func_d"]
                         \o Isolated["func_e"] \o Isolated["func_f"]
                /\ Len(out) = 17
                /\ Cardinality({i \in DOMAIN out : out[i] = "func_e"}) = 6

C10_Witness ==
    /\ entry = "main"
    /\ Finished
    /\ Cardinality(MainCalls) = 6
    /\ out[16] = "func_f"

----------------------------------------------------------------------------
(* C9 *)

LoopPcs == {"print", "incr", "sleep"}

====
